---- MODULE Spec2Model ----
(***************************************************************************)
(* State-machine model of sfinance_server.py: the lazily constructed       *)
(* SFinance session (get_sfinance), the login flags, the TTL cache of      *)
(* ticker objects (get_ticker, clear_expired_cache) and the tool           *)
(* dispatcher call_tool.  call_tool is a coroutine whose body contains no  *)
(* await, so the event loop runs each invocation to completion: one        *)
(* invocation is one atomic step.  The SFinance library is external; each  *)
(* of its calls is a nondeterministic choice among the outcomes the code   *)
(* distinguishes (return, TickerNotFound, LoginRequiredError, other).      *)
(* Time is measured in hours.                                              *)
(***************************************************************************)
EXTENDS Integers, Sequences, FiniteSets, TLC

VARIABLES sf, _login_attempted, _login_successful, ticker_cache,
          fetcher_logged_in, env, now,
          ctor_failed, login_calls,
          inbox, running, last

vars == <<sf, _login_attempted, _login_successful, ticker_cache,
          fetcher_logged_in, env, now,
          ctor_failed, login_calls,
          inbox, running, last>>

----------------------------------------------------------------------------
(* Bounds of the model *)

MaxSymLen == 1

TickHours == 12

MaxTime == 2 * TickHours

MaxPending == 2

----------------------------------------------------------------------------
(* Program constants and values *)

CACHE_EXPIRY_HOURS == 24

None == 0

NoTicker == <<>>

Unset == "<unset>"

NoExc == "NoExc"

Alphabet == {"a", "A"}

UpperOf == [c \in Alphabet |-> IF c = "a" THEN "A" ELSE c]

SeqsUpTo(n) == UNION {[1..k -> Alphabet] : k \in 0..n}

Symbols == SeqsUpTo(MaxSymLen)

EnvChoices ==
  { [email |-> Unset,  password |-> "pw"],
    [email |-> "user", password |-> ""],
    [email |-> "user", password |-> "pw"] }

Truthy_notnone(v) == v # Unset

Truthy(v) == v \notin {Unset, ""}

CacheAdminTools == {"get_cache_stats", "clear_cache"}

TabularTools == {"get_income_statement", "get_balance_sheet", "get_cash_flow",
                 "get_quarterly_results", "get_shareholding",
                 "get_peer_comparison"}

SymbolTools == {"get_overview"} \cup TabularTools

RoutingTable == CacheAdminTools \cup {"check_login_status", "screen_stocks",
                                      "get_screening_parameters"}
                \cup SymbolTools

ToolNames == RoutingTable \cup {"not_a_tool"}

ArgBags ==
  { [keys |-> {}, symbol |-> <<>>] }
  \cup { [keys |-> {"query"}, symbol |-> <<>>] }
  \cup { [keys |-> {"symbol"}, symbol |-> s] : s \in Symbols }

(* The argument bags a client sends with a tool: those of the tool's       *)
(* inputSchema, with or without the required argument; any bag with a      *)
(* name that is not a tool.                                                *)
BagsOf(name) ==
  CASE name \in {"get_cache_stats", "check_login_status",
                 "get_screening_parameters"} ->
         {b \in ArgBags : b.keys = {}}
    [] name = "screen_stocks" -> {b \in ArgBags : "symbol" \notin b.keys}
    [] name \in {"get_overview", "clear_cache"} ->
         {b \in ArgBags : "query" \notin b.keys}
    [] name \in TabularTools ->
         {b \in ArgBags : "query" \notin b.keys /\ b.symbol \in {<<>>, <<"a">>}}
    [] OTHER -> ArgBags

Requests == UNION {[name : {n}, arguments : BagsOf(n)] : n \in ToolNames}

----------------------------------------------------------------------------
(* str.upper() *)

upper_identity(s) == s

upper(s) == [i \in 1..Len(s) |-> UpperOf[s[i]]]

(* dict helpers *)

Put(c, k, v) == [x \in DOMAIN c \cup {k} |-> IF x = k THEN v ELSE c[x]]

Del(c, k) == [x \in DOMAIN c \ {k} |-> c[x]]

EmptyCache == [x \in {} |-> 0]

----------------------------------------------------------------------------
(* The globals of the module and of the backing client, as one record *)

(* held: the ticker objects alive when the invocation starts; an object    *)
(* created during the invocation is none of them.  login_calls counts the  *)
(* calls of sf.login (it stops counting at 2); ctor_failed records that    *)
(* SFinance(...) has raised.                                               *)
Globals ==
  [sf |-> sf, la |-> _login_attempted, ls |-> _login_successful,
   cache |-> ticker_cache, live |-> fetcher_logged_in,
   ctor_failed |-> ctor_failed, login_calls |-> login_calls,
   held |-> {ticker_cache[k].ticker : k \in DOMAIN ticker_cache}]

Min(S) == CHOOSE x \in S : \A y \in S : x <= y

(* The identity of a newly created object: none of those in use *)
NewObject(used) == Min((1..(Cardinality(used) + 1)) \ used)

(* The identity of a ticker object newly created for a symbol: the symbol  *)
(* and a number that tells it from the objects in use                      *)
NewTicker(sym, used) ==
  <<sym, Min({n \in 0..Cardinality(used) : <<sym, n>> \notin used})>>

Count(n) == IF n < 2 THEN n + 1 ELSE n

(* get_sfinance(): g the globals, e the environment, out the outcomes of   *)
(* the backend calls.  Result: the globals afterwards, the exception that  *)
(* leaves the function (NoExc if it returns), the returned session, and    *)
(* how many times the constructor and login were invoked.                  *)
(* out.ctor: SFinance(...) returns ("ok") or raises ("raise").             *)
(* out.login: sf.login and sf.fetcher.is_logged_in() return with the       *)
(* client authenticated ("ok") or not ("negative"), or sf.login raises     *)
(* ("raise").                                                              *)
(* construct with the login attempt made before sf is assigned and outside *)
(* an inner try: a raising login leaves through the outer except clause    *)
construct_login_first(g, e, out) ==
  IF out.ctor = "raise"
  THEN [g |-> [g EXCEPT !.ctor_failed = TRUE], exc |-> "InitFailed",
        ret |-> None, ctor |-> 1, login |-> 0, login_out |-> "na"]
  ELSE
    LET id == NewObject({g.sf} \ {None})
        g1 == [g EXCEPT !.sf = id, !.live = FALSE]
    IN IF g1.la
       THEN [g |-> g1, exc |-> NoExc, ret |-> id, ctor |-> 1, login |-> 0,
             login_out |-> "na"]
       ELSE IF Truthy(e.email) /\ Truthy(e.password)
       THEN IF out.login = "raise"
            THEN [g |-> [g EXCEPT !.login_calls = Count(@)],
                  exc |-> "InitFailed", ret |-> None, ctor |-> 1,
                  login |-> 1, login_out |-> out.login]
            ELSE LET live2 == (out.login = "ok")
                     g2 == [g1 EXCEPT !.live = live2,
                                      !.login_calls = Count(@),
                                      !.ls = live2, !.la = TRUE]
                 IN [g |-> g2, exc |-> NoExc, ret |-> id, ctor |-> 1,
                     login |-> 1, login_out |-> out.login]
       ELSE [g |-> [g1 EXCEPT !.ls = FALSE, !.la = TRUE],
             exc |-> NoExc, ret |-> id, ctor |-> 1, login |-> 0,
             login_out |-> "na"]

(* construct with _login_attempted set before the constructor is called *)
construct_flag_first(g, e, out) ==
  IF out.ctor = "raise"
  THEN [g |-> [g EXCEPT !.ctor_failed = TRUE, !.la = TRUE],
        exc |-> "InitFailed",
        ret |-> None, ctor |-> 1, login |-> 0, login_out |-> "na"]
  ELSE
    LET id == NewObject({g.sf} \ {None})
        g1 == [g EXCEPT !.sf = id, !.live = FALSE]
    IN IF Truthy(e.email) /\ Truthy(e.password) /\ ~g.la
       THEN LET live2 == (out.login = "ok")
                g2 == [g1 EXCEPT !.live = live2,
                                 !.login_calls = Count(@),
                                 !.ls = IF out.login = "raise" THEN FALSE
                                        ELSE live2,
                                 !.la = TRUE]
            IN [g |-> g2, exc |-> NoExc, ret |-> id, ctor |-> 1, login |-> 1,
                login_out |-> out.login]
       ELSE [g |-> [g1 EXCEPT !.la = TRUE],
             exc |-> NoExc, ret |-> id, ctor |-> 1, login |-> 0,
             login_out |-> "na"]

(* The body of "if sf is None": construction, then the login attempt *)
construct(g, e, out) ==
  IF out.ctor = "raise"
  THEN [g |-> [g EXCEPT !.ctor_failed = TRUE], exc |-> "InitFailed",
        ret |-> None, ctor |-> 1, login |-> 0, login_out |-> "na"]
  ELSE
    LET id == NewObject({g.sf} \ {None})
        g1 == [g EXCEPT !.sf = id, !.live = FALSE]
    IN IF g1.la
       THEN [g |-> g1, exc |-> NoExc, ret |-> id, ctor |-> 1, login |-> 0,
             login_out |-> "na"]
       ELSE IF Truthy(e.email) /\ Truthy(e.password)
       THEN LET live2 == (out.login = "ok")
                g2 == [g1 EXCEPT !.live = live2,
                                 !.login_calls = Count(@),
                                 !.ls = IF out.login = "raise" THEN FALSE
                                        ELSE live2,
                                 !.la = TRUE]
            IN [g |-> g2, exc |-> NoExc, ret |-> id, ctor |-> 1, login |-> 1,
                login_out |-> out.login]
       ELSE [g |-> [g1 EXCEPT !.ls = FALSE, !.la = TRUE],
             exc |-> NoExc, ret |-> id, ctor |-> 1, login |-> 0,
             login_out |-> "na"]

(* get_sfinance without the "if sf is None" test *)
get_sfinance_eager(g, e, out) == construct(g, e, out)

(* get_sfinance that calls the constructor a second time when the first   *)
(* call raised                                                             *)
get_sfinance_retry(g, e, out) ==
  IF g.sf # None
  THEN [g |-> g, exc |-> NoExc, ret |-> g.sf, ctor |-> 0, login |-> 0,
        login_out |-> "na"]
  ELSE LET r == construct(g, e, out)
       IN IF r.exc = NoExc THEN r
          ELSE [construct(r.g, e, [out EXCEPT !.ctor = "ok"])
                  EXCEPT !.ctor = 2]

get_sfinance(g, e, out) ==
  IF g.sf # None
  THEN [g |-> g, exc |-> NoExc, ret |-> g.sf, ctor |-> 0, login |-> 0,
        login_out |-> "na"]
  ELSE construct(g, e, out)

(* is_logged_in answering from the cached flag only *)
is_logged_in_cached(g) == g.ls

(* is_logged_in() *)
is_logged_in(g) == IF g.sf # None THEN g.live ELSE g.ls

(* The TTL test with timedelta(seconds=...) or with <= for < *)
Fresh_seconds(entry, t) == (t - entry.time) * 3600 < CACHE_EXPIRY_HOURS

Fresh_inclusive(entry, t) == t - entry.time <= CACHE_EXPIRY_HOURS

(* The TTL test of get_ticker and get_cache_stats *)
Fresh(entry, t) == t - entry.time < CACHE_EXPIRY_HOURS

(* get_ticker that reserves the cache slot before it calls sf.ticker: the  *)
(* entry is written first and filled in when the factory returns           *)
get_ticker_cache_first(g, e, symbol, t, out) ==
  LET sym == upper(symbol)
      present == sym \in DOMAIN g.cache
  IN IF present /\ Fresh(g.cache[sym], t)
     THEN [g |-> g, exc |-> NoExc, ticker |-> g.cache[sym].ticker,
           ctor |-> 0, login |-> 0, factory |-> 0, sess |-> None,
           login_out |-> "na"]
     ELSE
       LET g0 == IF present THEN [g EXCEPT !.cache = Del(g.cache, sym)] ELSE g
           r  == get_sfinance(g0, e, out)
           id == NewTicker(sym, r.g.held \cup
                               {r.g.cache[k].ticker : k \in DOMAIN r.g.cache})
           g2 == [r.g EXCEPT !.cache = Put(r.g.cache, sym,
                                           [ticker |-> id, time |-> t])]
       IN IF r.exc # NoExc
          THEN [g |-> r.g, exc |-> r.exc, ticker |-> NoTicker,
                ctor |-> r.ctor, login |-> r.login, factory |-> 0,
                sess |-> r.ret, login_out |-> r.login_out]
          ELSE IF out.ticker # "ok"
          THEN [g |-> g2, exc |-> out.ticker, ticker |-> NoTicker,
                ctor |-> r.ctor, login |-> r.login, factory |-> 1,
                sess |-> r.ret, login_out |-> r.login_out]
          ELSE [g |-> g2, exc |-> NoExc, ticker |-> id,
                ctor |-> r.ctor, login |-> r.login, factory |-> 1,
                sess |-> r.ret, login_out |-> r.login_out]

(* get_ticker(symbol): t is the value datetime.now() returns in it *)
get_ticker(g, e, symbol, t, out) ==
  LET sym == upper(symbol)
      present == sym \in DOMAIN g.cache
  IN IF present /\ Fresh(g.cache[sym], t)
     THEN [g |-> g, exc |-> NoExc, ticker |-> g.cache[sym].ticker,
           ctor |-> 0, login |-> 0, factory |-> 0, sess |-> None,
           login_out |-> "na"]
     ELSE
       LET g0 == IF present THEN [g EXCEPT !.cache = Del(g.cache, sym)] ELSE g
           r  == get_sfinance(g0, e, out)
       IN IF r.exc # NoExc
          THEN [g |-> r.g, exc |-> r.exc, ticker |-> NoTicker,
                ctor |-> r.ctor, login |-> r.login, factory |-> 0,
                sess |-> r.ret, login_out |-> r.login_out]
          ELSE IF out.ticker # "ok"
          THEN [g |-> r.g, exc |-> out.ticker, ticker |-> NoTicker,
                ctor |-> r.ctor, login |-> r.login, factory |-> 1,
                sess |-> r.ret, login_out |-> r.login_out]
          ELSE
            LET id == NewTicker(sym, r.g.held \cup
                                {r.g.cache[k].ticker : k \in DOMAIN r.g.cache})
                g2 == [r.g EXCEPT !.cache = Put(r.g.cache, sym,
                                                [ticker |-> id, time |-> t])]
            IN [g |-> g2, exc |-> NoExc, ticker |-> id,
                ctor |-> r.ctor, login |-> r.login, factory |-> 1,
                sess |-> r.ret, login_out |-> r.login_out]

(* clear_expired_cache with timedelta(seconds=...) for timedelta(hours=...) *)
clear_expired_cache_seconds(g, t) ==
  LET expired_symbols ==
        {k \in DOMAIN g.cache :
           (t - g.cache[k].time) * 3600 >= CACHE_EXPIRY_HOURS}
  IN [g EXCEPT !.cache = [k \in DOMAIN g.cache \ expired_symbols |-> g.cache[k]]]

(* clear_expired_cache with > for >= in its test *)
clear_expired_cache_strict(g, t) ==
  LET expired_symbols ==
        {k \in DOMAIN g.cache : t - g.cache[k].time > CACHE_EXPIRY_HOURS}
  IN [g EXCEPT !.cache = [k \in DOMAIN g.cache \ expired_symbols |-> g.cache[k]]]

(* clear_expired_cache(): t is the value datetime.now() returns in it *)
clear_expired_cache(g, t) ==
  LET expired_symbols ==
        {k \in DOMAIN g.cache : t - g.cache[k].time >= CACHE_EXPIRY_HOURS}
  IN [g EXCEPT !.cache = [k \in DOMAIN g.cache \ expired_symbols |-> g.cache[k]]]

(* get_cache_stats(): the three counters *)
get_cache_stats(g, t) ==
  LET active_cache  == Cardinality({k \in DOMAIN g.cache : Fresh(g.cache[k], t)})
      expired_cache == Cardinality({k \in DOMAIN g.cache : ~Fresh(g.cache[k], t)})
  IN [active_cache_entries |-> active_cache,
      expired_cache_entries |-> expired_cache,
      total_cache_entries |-> Cardinality(DOMAIN g.cache),
      login_status |-> is_logged_in(g)]

(* df.to_json(orient='records') without the test of df.empty: an empty    *)
(* table becomes the empty sequence "[]"                                   *)
df_to_json_no_test(df) == "Records"

(* df_to_json(df): df is the table a ticker method returned, with rows     *)
(* ("data") or without ("empty"); the result is the error object           *)
(* {"error": "No data available"} ("NoData") or the sequence of the row    *)
(* records ("Records")                                                     *)
df_to_json(df) == IF df = "empty" THEN "NoData" ELSE "Records"

(* What one call_tool invocation did, besides its effect on the globals *)
NoEffect ==
  [resp |-> "none", ctor |-> 0, login |-> 0, factory |-> 0,
   query_path |-> FALSE, sess |-> None, ticker |-> NoTicker, checked |-> "na",
   login_out |-> "na", count |-> 0, active |-> 0, expired |-> 0, total |-> 0,
   df |-> "na", raised |-> NoExc]

(* call_tool without its last clause, "except Exception" *)
Classify_two_clauses(exc) ==
  CASE exc = "TickerNotFound"     -> "TickerNotFound"
    [] exc = "LoginRequiredError" -> "LoginRequired"
    [] OTHER                      -> "Uncaught"

(* The three except clauses at the end of call_tool *)
Classify(exc) ==
  CASE exc = "TickerNotFound"     -> "TickerNotFound"
    [] exc = "LoginRequiredError" -> "LoginRequired"
    [] exc = "raise"              -> "BackendError"
    [] OTHER                      -> exc

(* The screen_stocks branch of call_tool *)
screen_stocks(arguments, g, e, out) ==
  IF "query" \notin arguments.keys
  THEN [g |-> g, eff |-> [NoEffect EXCEPT !.resp = "KeyError"]]
  ELSE
    LET r  == get_sfinance(g, e, out)
        e1 == [NoEffect EXCEPT !.ctor = r.ctor, !.login = r.login,
                               !.login_out = r.login_out, !.sess = r.ret]
    IN IF r.exc # NoExc
       THEN [g |-> r.g, eff |-> [e1 EXCEPT !.resp = "ScreeningFailed",
                                           !.raised = r.exc]]
       ELSE IF ~is_logged_in(r.g)
       THEN [g |-> r.g, eff |-> [e1 EXCEPT !.resp = "LoginRequired",
                                           !.checked = "no"]]
       ELSE [g |-> r.g,
             eff |-> [e1 EXCEPT !.checked = "yes", !.query_path = TRUE,
                                !.raised = IF out.query \in {"data", "empty"}
                                           THEN NoExc ELSE out.query,
                                !.resp = IF out.query \in {"data", "empty"}
                                         THEN "ScreenResults"
                                         ELSE "ScreeningFailed"]]

(* The final else branch of call_tool: the ticker-based tools *)
ticker_tool(name, arguments, g, e, t1, t2, out) ==
  IF "symbol" \notin arguments.keys
  THEN [g |-> g, eff |-> [NoEffect EXCEPT !.resp = "KeyError"]]
  ELSE
    LET symbol == upper(arguments.symbol)
        g1 == clear_expired_cache(g, t1)
        r  == get_ticker(g1, e, symbol, t2, out)
        e1 == [NoEffect EXCEPT !.ctor = r.ctor, !.login = r.login,
                               !.factory = r.factory, !.ticker = r.ticker,
                               !.login_out = r.login_out, !.sess = r.sess]
    IN IF r.exc # NoExc
       THEN [g |-> r.g, eff |-> [e1 EXCEPT !.resp = Classify(r.exc),
                                           !.raised = r.exc]]
       ELSE IF name \notin SymbolTools
       THEN [g |-> r.g, eff |-> [e1 EXCEPT !.resp = "UnknownTool"]]
       ELSE IF out.query \notin {"data", "empty"}
       THEN [g |-> r.g, eff |-> [e1 EXCEPT !.resp = Classify(out.query),
                                           !.raised = out.query]]
       ELSE IF name = "get_overview"
       THEN [g |-> r.g, eff |-> [e1 EXCEPT !.resp = "Overview"]]
       ELSE [g |-> r.g,
             eff |-> [e1 EXCEPT !.df = out.query,
                                !.resp = df_to_json(out.query)]]

(* clear_cache that also drops the session when it clears everything *)
clear_cache_and_session(arguments, g) ==
  LET given == "symbol" \in arguments.keys /\ arguments.symbol # <<>>
      symbol == upper(arguments.symbol)
  IN IF given
     THEN IF symbol \in DOMAIN g.cache
          THEN [g |-> [g EXCEPT !.cache = Del(g.cache, symbol)],
                eff |-> [NoEffect EXCEPT !.resp = "Cleared", !.count = 1]]
          ELSE [g |-> g, eff |-> [NoEffect EXCEPT !.resp = "NoCacheFound"]]
     ELSE [g |-> [g EXCEPT !.cache = EmptyCache, !.sf = None, !.live = FALSE],
           eff |-> [NoEffect EXCEPT !.resp = "ClearedAll",
                                    !.count = Cardinality(DOMAIN g.cache)]]

(* The clear_cache branch of call_tool *)
clear_cache(arguments, g) ==
  LET given == "symbol" \in arguments.keys /\ arguments.symbol # <<>>
      symbol == upper(arguments.symbol)
  IN IF given
     THEN IF symbol \in DOMAIN g.cache
          THEN [g |-> [g EXCEPT !.cache = Del(g.cache, symbol)],
                eff |-> [NoEffect EXCEPT !.resp = "Cleared", !.count = 1]]
          ELSE [g |-> g, eff |-> [NoEffect EXCEPT !.resp = "NoCacheFound"]]
     ELSE [g |-> [g EXCEPT !.cache = EmptyCache],
           eff |-> [NoEffect EXCEPT !.resp = "ClearedAll",
                                    !.count = Cardinality(DOMAIN g.cache)]]

(* check_login_status asking get_sfinance() for the session first, as     *)
(* screen_stocks does                                                      *)
check_login_status_constructing(g, e, out) ==
  LET r == get_sfinance(g, e, out)
  IN [g |-> r.g,
      eff |-> [NoEffect EXCEPT !.ctor = r.ctor, !.login = r.login,
                               !.login_out = r.login_out, !.sess = r.ret,
                               !.resp = IF r.exc # NoExc THEN Classify(r.exc)
                                        ELSE "LoginStatus",
                               !.checked = IF is_logged_in(r.g) THEN "yes"
                                           ELSE "no"]]

(* The check_login_status branch of call_tool; it uses neither the         *)
(* environment e nor a backend outcome                                     *)
check_login_status(g, e, out) ==
  [g |-> g,
   eff |-> [NoEffect EXCEPT !.resp = "LoginStatus",
                            !.checked = IF is_logged_in(g) THEN "yes"
                                        ELSE "no"]]

(* call_tool(name, arguments): t1 and t2 are the values of the two         *)
(* datetime.now() reads of a ticker-based tool (t1 <= t2); the other tools *)
(* read the clock at most once, at t1.                                     *)
call_tool(name, arguments, g, e, t1, t2, out) ==
  CASE name = "get_cache_stats" ->
         LET stats == get_cache_stats(g, t1)
         IN [g |-> g,
             eff |-> [NoEffect EXCEPT
                        !.resp = "CacheStats",
                        !.active = stats.active_cache_entries,
                        !.expired = stats.expired_cache_entries,
                        !.total = stats.total_cache_entries,
                        !.checked = IF stats.login_status THEN "yes"
                                    ELSE "no"]]
    [] name = "clear_cache" -> clear_cache(arguments, g)
    [] name = "check_login_status" -> check_login_status(g, e, out)
    [] name = "screen_stocks" -> screen_stocks(arguments, g, e, out)
    [] name = "get_screening_parameters" ->
         [g |-> g, eff |-> [NoEffect EXCEPT !.resp = "Parameters"]]
    [] OTHER -> ticker_tool(name, arguments, g, e, t1, t2, out)

----------------------------------------------------------------------------
(* The outcomes the backend calls of one invocation can have.  A call that *)
(* the invocation cannot reach keeps its first value.                      *)

NeedsSession(req) ==
  \/ req.name = "screen_stocks" /\ "query" \in req.arguments.keys
  \/ req.name \notin RoutingTable \ SymbolTools
     /\ "symbol" \in req.arguments.keys

CtorOutcomes(req) ==
  IF NeedsSession(req) /\ sf = None THEN {"ok", "raise"} ELSE {"ok"}

LoginOutcomes(req, c) ==
  IF NeedsSession(req) /\ sf = None /\ c = "ok"
  THEN {"ok", "negative", "raise"} ELSE {"ok"}

TickerOutcomes(req, c) ==
  IF req.name \notin RoutingTable \ SymbolTools
     /\ "symbol" \in req.arguments.keys /\ c = "ok"
  THEN {"ok", "TickerNotFound", "raise"} ELSE {"ok"}

QueryOutcomes(req, c, k) ==
  IF c = "ok" /\ k = "ok" /\ NeedsSession(req)
  THEN CASE req.name = "get_overview" ->
              {"data", "TickerNotFound", "LoginRequiredError", "raise"}
         [] req.name \in TabularTools \cup {"screen_stocks"} ->
              {"data", "empty", "TickerNotFound", "LoginRequiredError", "raise"}
         [] OTHER -> {"data"}
  ELSE {"data"}

Outcomes(req) ==
  UNION { UNION { UNION { { [ctor |-> c, login |-> l, ticker |-> k, query |-> q]
                            : q \in QueryOutcomes(req, c, k) }
                          : k \in TickerOutcomes(req, c) }
                  : l \in LoginOutcomes(req, c) }
          : c \in CtorOutcomes(req) }

(* The time that passes between the datetime.now() of clear_expired_cache  *)
(* and that of get_ticker.  It is told apart from time passing before the  *)
(* invocation only when it makes an entry expire between the two reads.    *)
Delays(req) ==
  IF /\ req.name \notin RoutingTable \ SymbolTools
     /\ "symbol" \in req.arguments.keys
     /\ \E k \in DOMAIN ticker_cache :
          /\ now - ticker_cache[k].time < CACHE_EXPIRY_HOURS
          /\ now + TickHours - ticker_cache[k].time >= CACHE_EXPIRY_HOURS
  THEN {0, TickHours} ELSE {0}

----------------------------------------------------------------------------
(* State *)

(* No call_tool body is being executed *)
Idle == [req |-> [name |-> "none", arguments |-> [keys |-> {}, symbol |-> <<>>]],
         fail_seen |-> 0, ok_seen |-> 0]

NoLast ==
  [name |-> "none", arguments |-> [keys |-> {}, symbol |-> <<>>],
   eff |-> NoEffect, prev_time |-> -1, prev_ticker |-> NoTicker,
   pre_logged_in |-> FALSE, pre_failed |-> FALSE,
   fail_seen |-> 0, ok_seen |-> 0]

Init ==
  /\ sf = None
  /\ _login_attempted = FALSE
  /\ _login_successful = FALSE
  /\ ticker_cache = EmptyCache
  /\ fetcher_logged_in = FALSE
  /\ env \in EnvChoices
  /\ now = 0
  /\ ctor_failed = FALSE
  /\ login_calls = 0
  /\ inbox = <<>>
  /\ running = Idle
  /\ last = NoLast

(* One invocation of call_tool, run to completion; last records what it   *)
(* did until its answer is sent.  p is the request with what happened      *)
(* while it was pending, rest the requests still pending.                  *)
Run(p, rest) ==
  /\ last = NoLast
  /\ \E d \in Delays(p.req) : \E out \in Outcomes(p.req) :
      \E g \in {Globals} :
      \E r \in {call_tool(p.req.name, p.req.arguments, g, env,
                          now, now + d, out)} :
       LET key == upper(p.req.arguments.symbol)
           had == key \in DOMAIN ticker_cache
           ok  == IF r.eff.ctor = 1 /\ r.g.sf # None THEN 1 ELSE 0
       IN /\ now + d <= MaxTime
          /\ sf' = r.g.sf
          /\ _login_attempted' = r.g.la
          /\ _login_successful' = r.g.ls
          /\ ticker_cache' = r.g.cache
          /\ fetcher_logged_in' = r.g.live
          /\ ctor_failed' = r.g.ctor_failed
          /\ login_calls' = r.g.login_calls
          /\ now' = now + d
          /\ running' = Idle
          /\ inbox' = [i \in 1..Len(rest) |->
                         [rest[i] EXCEPT !.ok_seen = @ + ok,
                                         !.fail_seen = @ + (r.eff.ctor - ok)]]
          /\ last' = [name |-> p.req.name, arguments |-> p.req.arguments,
                      eff |-> r.eff,
                      prev_time |-> IF had THEN ticker_cache[key].time ELSE -1,
                      prev_ticker |-> IF had THEN ticker_cache[key].ticker
                                     ELSE NoTicker,
                      pre_logged_in |-> is_logged_in(Globals),
                      pre_failed |-> ctor_failed,
                      fail_seen |-> p.fail_seen, ok_seen |-> p.ok_seen]
          /\ UNCHANGED env

(* A client that awaits each answer before its next call (test_server.py) *)
Call(req) ==
  /\ inbox = <<>>
  /\ Run([req |-> req, fail_seen |-> 0, ok_seen |-> 0], <<>>)

(* The answer of the invocation is sent to the client *)
Respond ==
  /\ last # NoLast
  /\ last' = NoLast
  /\ UNCHANGED <<sf, _login_attempted, _login_successful, ticker_cache,
                 fetcher_logged_in, env, now, ctor_failed, login_calls,
                 inbox, running>>

(* The clock advances *)
Tick ==
  /\ last = NoLast
  /\ now + TickHours <= MaxTime
  /\ now' = now + TickHours
  /\ UNCHANGED <<sf, _login_attempted, _login_successful, ticker_cache,
                 fetcher_logged_in, env, ctor_failed, login_calls,
                 inbox, running, last>>

(* The site ends the authenticated session of the backing client *)
SessionExpires ==
  /\ last = NoLast
  /\ fetcher_logged_in
  /\ fetcher_logged_in' = FALSE
  /\ UNCHANGED <<sf, _login_attempted, _login_successful, ticker_cache,
                 env, now, ctor_failed, login_calls, inbox, running, last>>

Next ==
  \/ \E req \in Requests : Call(req)
  \/ Respond
  \/ Tick
  \/ SessionExpires

Spec == Init /\ [][Next]_vars

----------------------------------------------------------------------------
(* Several requests in flight.  The server starts one task per request     *)
(* and the event loop runs them in arrival order, each call_tool body to   *)
(* completion.                                                             *)

ConcRequests ==
  { [name |-> "screen_stocks", arguments |-> [keys |-> {"query"}, symbol |-> <<>>]],
    [name |-> "get_overview", arguments |-> [keys |-> {"symbol"}, symbol |-> <<"a">>]] }

Receive(req) ==
  /\ Len(inbox) < MaxPending
  /\ inbox' = Append(inbox, [req |-> req, fail_seen |-> 0, ok_seen |-> 0])
  /\ UNCHANGED <<sf, _login_attempted, _login_successful, ticker_cache,
                 fetcher_logged_in, env, now, ctor_failed, login_calls,
                 running, last>>

(* The event loop starting a handler while another one is inside its body *)
Handle_interleaved ==
  /\ inbox # <<>>
  /\ Run(Head(inbox), Tail(inbox))

Handle ==
  /\ inbox # <<>>
  /\ running = Idle
  /\ Run(Head(inbox), Tail(inbox))

NextConc ==
  \/ \E req \in ConcRequests : Receive(req)
  \/ Handle
  \/ Respond
  \/ SessionExpires

SpecConc == Init /\ [][NextConc]_vars

(* The event loop runs every task that is ready: a pending request is      *)
(* handled and a finished invocation is answered.  The backend calls of a  *)
(* handler return or raise, so a started body reaches its return.          *)
SpecLive == SpecConc /\ WF_vars(Handle) /\ WF_vars(Respond)

----------------------------------------------------------------------------
(* A symbol-scoped request whose handler is inside its backend calls while  *)
(* other requests arrive.  sf.ticker and the ticker methods are ordinary    *)
(* blocking calls and the body of call_tool has no await: from the moment   *)
(* the event loop enters the body until it returns, the loop's thread is in *)
(* that body.  A request that arrives meanwhile waits in the inbox.         *)

FlightRequests ==
  { [name |-> "get_overview", arguments |-> [keys |-> {"symbol"}, symbol |-> <<"a">>]],
    [name |-> "get_cache_stats", arguments |-> [keys |-> {}, symbol |-> <<>>]],
    [name |-> "clear_cache", arguments |-> [keys |-> {}, symbol |-> <<>>]] }

(* The event loop enters the body of call_tool for a symbol-scoped request  *)
(* and the body reaches its backend fetch                                   *)
StartFetch ==
  /\ inbox # <<>>
  /\ running = Idle
  /\ last = NoLast
  /\ Head(inbox).req.name \in SymbolTools
  /\ running' = Head(inbox)
  /\ inbox' = Tail(inbox)
  /\ UNCHANGED <<sf, _login_attempted, _login_successful, ticker_cache,
                 fetcher_logged_in, env, now, ctor_failed, login_calls,
                 last>>

(* The backend fetch returns or raises and the body runs to its return *)
FinishFetch ==
  /\ running # Idle
  /\ Run(running, inbox)

(* The event loop runs call_tool for a cache-admin request *)
HandleAdmin ==
  /\ inbox # <<>>
  /\ Head(inbox).req.name \in CacheAdminTools
  /\ Handle

(* The clock advances between invocations; the time a fetch takes is the  *)
(* delay between the two clock reads of its invocation                     *)
TickIdle ==
  /\ running = Idle
  /\ Tick

NextFlight ==
  \/ \E req \in FlightRequests : Receive(req)
  \/ StartFetch
  \/ FinishFetch
  \/ HandleAdmin
  \/ Respond
  \/ TickIdle

SpecFlight == Init /\ [][NextFlight]_vars

----------------------------------------------------------------------------
(* Vocabulary of the properties.  last describes the invocation that has   *)
(* just run; while it is set no other step has been taken, so now is the   *)
(* time get_ticker read and the globals are those the invocation left.     *)

Called == last # NoLast

TickerCall ==
  /\ Called
  /\ last.name \notin RoutingTable \ SymbolTools
  /\ "symbol" \in last.arguments.keys

LowerChars == {"a"}

IsUpperCase(k) == \A i \in 1..Len(k) : k[i] \notin LowerChars

SameIgnoringCase(k, s) ==
  /\ Len(k) = Len(s)
  /\ \A i \in 1..Len(k) :
       \/ k[i] = s[i]
       \/ {k[i], s[i]} = {"a", "A"}

LastKey == CHOOSE k \in SeqsUpTo(Len(last.arguments.symbol)) :
             IsUpperCase(k) /\ SameIgnoringCase(k, last.arguments.symbol)

NoCredentials ==
  \/ env.email \in {Unset, ""}
  \/ env.password \in {Unset, ""}

----------------------------------------------------------------------------
(* C1: a get_ticker for a symbol, in any letter case, whose cached entry   *)
(* is younger than the TTL returns the cached ticker object, leaves the    *)
(* entry as it was, and calls neither the ticker factory nor the session   *)
(* constructor nor login.                                                  *)
C1_CachedWithinTTL ==
  (TickerCall /\ last.prev_time >= 0
              /\ now - last.prev_time < CACHE_EXPIRY_HOURS)
  => /\ last.eff.ticker = last.prev_ticker
     /\ last.eff.factory = 0
     /\ last.eff.ctor = 0
     /\ last.eff.login = 0
     /\ LastKey \in DOMAIN ticker_cache
     /\ ticker_cache[LastKey] = [ticker |-> last.prev_ticker,
                                 time |-> last.prev_time]

C1_Witness ==
  /\ TickerCall
  /\ last.arguments.symbol = <<"a">>
  /\ last.prev_time >= 0
  /\ now - last.prev_time = TickHours
  /\ last.eff.ticker = last.prev_ticker
  /\ last.eff.ticker # NoTicker

(* C2: a get_ticker for a symbol whose cached entry has age >= TTL (age    *)
(* equal to the TTL included) does not return the old ticker: the old      *)
(* entry is removed, the factory is called, and on success the new entry   *)
(* holds a new ticker and a later creation time.                           *)
C2_ExpiredRefetched ==
  (TickerCall /\ last.prev_time >= 0
              /\ now - last.prev_time >= CACHE_EXPIRY_HOURS)
  => /\ last.eff.factory = 1
     /\ last.eff.ticker # last.prev_ticker
     /\ last.eff.ticker = NoTicker => LastKey \notin DOMAIN ticker_cache
     /\ last.eff.ticker # NoTicker =>
           /\ LastKey \in DOMAIN ticker_cache
           /\ ticker_cache[LastKey].ticker = last.eff.ticker
           /\ ticker_cache[LastKey].time = now
           /\ ticker_cache[LastKey].time > last.prev_time

C2_Witness ==
  /\ TickerCall
  /\ last.prev_time >= 0
  /\ now - last.prev_time = CACHE_EXPIRY_HOURS
  /\ last.eff.factory = 1
  /\ last.eff.ticker # NoTicker

C4_LoginAtMostOnce ==
  /\ [](login_calls <= 1)
  /\ [][_login_attempted => _login_attempted']_vars

C4_Witness ==
  /\ login_calls = 1
  /\ ctor_failed
  /\ _login_attempted

(* C5: an invocation whose construction fails makes one constructor call,  *)
(* leaves sf None and both login flags as they were and answers with an    *)
(* error; and every invocation that needs the session while sf is None     *)
(* calls the constructor, so the next request tries again.                 *)
C5_ConstructionFailure ==
  [][ (last = NoLast /\ last' # NoLast) =>
        /\ (last'.eff.ctor >= 1 /\ last'.eff.sess = None) =>
              /\ sf' = None
              /\ _login_attempted' = _login_attempted
              /\ _login_successful' = _login_successful
              /\ last'.eff.ctor = 1
              /\ ctor_failed'
              /\ last'.eff.login = 0
              /\ last'.eff.factory = 0
              /\ ~last'.eff.query_path
              /\ last'.eff.resp \in {"InitFailed", "ScreeningFailed"}
        /\ (sf = None /\ NeedsSession([name |-> last'.name,
                                        arguments |-> last'.arguments])) =>
              last'.eff.ctor = 1
    ]_vars

C5_Witness ==
  /\ Called
  /\ last.eff.ctor = 1
  /\ last.eff.sess = None
  /\ last.pre_failed
  /\ sf = None

(* C6: when the login attempt raises or leaves the client unauthenticated, *)
(* get_sfinance still returns the session it constructed, with             *)
(* _login_successful false, and the invocation goes on to its next step.   *)
C6_LoginFailureSwallowed ==
  (Called /\ last.eff.login = 1 /\ last.eff.login_out # "ok")
  => /\ sf # None
     /\ last.eff.sess = sf
     /\ ~_login_successful
     /\ _login_attempted
     /\ last.eff.resp # "InitFailed"
     /\ TickerCall => last.eff.factory = 1
     /\ last.name = "screen_stocks" => last.eff.checked # "na"

C6_Witness ==
  /\ Called
  /\ last.eff.login = 1
  /\ last.eff.login_out = "raise"
  /\ last.eff.ticker # NoTicker

(* C7: with the email or the password unset or empty, login is never       *)
(* called and _login_successful is false in every state.                   *)
C7_NoCredentialsNoLogin ==
  NoCredentials => login_calls = 0 /\ ~_login_successful

C7_Witness ==
  /\ NoCredentials
  /\ sf # None
  /\ _login_attempted

(* C8 as stated: screen_stocks invoked (with its query) while             *)
(* is_logged_in() is false answers LoginRequired without the query path    *)
(* and without any backend call (no construction, no login).               *)
C8_GatedWithoutBackend ==
  (Called /\ last.name = "screen_stocks" /\ "query" \in last.arguments.keys
          /\ ~last.pre_logged_in)
  => /\ last.eff.resp = "LoginRequired"
     /\ ~last.eff.query_path
     /\ last.eff.ctor = 0
     /\ last.eff.login = 0

(* C8 amended: screen_stocks with a query, once get_sfinance has returned  *)
(* the session, answers LoginRequired and never takes the query path when  *)
(* the client is not authenticated; without credentials it never takes     *)
(* the query path.                                                         *)
C8_GatedAfterSession ==
  (Called /\ last.name = "screen_stocks")
  => /\ ("query" \in last.arguments.keys /\ sf # None /\ ~fetcher_logged_in)
          => last.eff.resp = "LoginRequired" /\ ~last.eff.query_path
     /\ NoCredentials =>
          /\ ~last.eff.query_path
          /\ last.eff.resp \in {"LoginRequired", "ScreeningFailed", "KeyError"}

C8_Witness ==
  /\ Called
  /\ last.name = "screen_stocks"
  /\ NoCredentials
  /\ last.eff.ctor = 1
  /\ last.eff.resp = "LoginRequired"

(* C9: a request whose tool name is outside the routing table is answered  *)
(* with the unknown-tool error, whatever its arguments.                    *)
C9_UnknownTool ==
  (Called /\ last.name \notin RoutingTable) => last.eff.resp = "UnknownTool"

(* C10: every key of ticker_cache is upper case, no two keys differ only   *)
(* by letter case, and a ticker fetched for a symbol is stored under the   *)
(* upper-case spelling of that symbol.                                     *)
C10_CanonicalKeys ==
  /\ \A k \in DOMAIN ticker_cache : IsUpperCase(k)
  /\ \A k1, k2 \in DOMAIN ticker_cache : SameIgnoringCase(k1, k2) => k1 = k2
  /\ (TickerCall /\ last.eff.factory = 1 /\ last.eff.ticker # NoTicker) =>
        /\ LastKey \in DOMAIN ticker_cache
        /\ ticker_cache[LastKey].ticker = last.eff.ticker

C10_Witness ==
  /\ TickerCall
  /\ last.arguments.symbol = <<"a">>
  /\ last.eff.factory = 1
  /\ <<"A">> \in DOMAIN ticker_cache
  /\ ticker_cache[<<"A">>].ticker = last.eff.ticker

----------------------------------------------------------------------------
(* The canonical spelling of a symbol, said without str.upper(): the upper  *)
(* case word that differs from it by letter case only                       *)
Canonical(s) == CHOOSE k \in SeqsUpTo(Len(s)) :
                  IsUpperCase(k) /\ SameIgnoringCase(k, s)

(* The step in which an invocation of call_tool runs *)
Invoked(tools) == last = NoLast /\ last' # NoLast /\ last'.name \in tools

(* C11: clear_cache without a symbol argument removes every entry and      *)
(* reports how many there were; clear_cache with a symbol argument S, for  *)
(* every string S, removes the entry of the canonical spelling of S and    *)
(* leaves every other entry (ticker and time) as it was.                   *)
C11_ClearCache ==
  [][ Invoked({"clear_cache"}) =>
        IF "symbol" \notin last'.arguments.keys
        THEN /\ ticker_cache' = EmptyCache
             /\ last'.eff.resp = "ClearedAll"
             /\ last'.eff.count = Cardinality(DOMAIN ticker_cache)
        ELSE LET key == Canonical(last'.arguments.symbol)
             IN /\ key \notin DOMAIN ticker_cache'
                /\ \A k \in DOMAIN ticker_cache \ {key} :
                     /\ k \in DOMAIN ticker_cache'
                     /\ ticker_cache'[k] = ticker_cache[k]
    ]_vars

(* The answers call_tool returns: each is a list of one text payload *)
ResponseKinds ==
  {"CacheStats", "Cleared", "NoCacheFound", "ClearedAll", "LoginStatus",
   "ScreenResults", "LoginRequired", "ScreeningFailed", "Parameters",
   "Overview", "Records", "NoData",
   "TickerNotFound", "KeyError", "InitFailed", "BackendError", "UnknownTool"}

(* Requests of a client that goes on after an answer *)
LaterRequests ==
  { [name |-> "get_cache_stats", arguments |-> [keys |-> {}, symbol |-> <<>>]],
    [name |-> "get_overview",
     arguments |-> [keys |-> {"symbol"}, symbol |-> <<"a">>]] }

(* C12: no failure leaves call_tool: every invocation, whatever raised in  *)
(* it, returns one of its answers (a list of one text payload), and        *)
(* between invocations the server accepts every request.                   *)
C12_FailuresAnswered ==
  /\ Called => last.eff.resp \in ResponseKinds
  /\ ~Called => \A req \in LaterRequests : ENABLED Call(req)

C12_Witness ==
  /\ Called
  /\ last.pre_failed
  /\ last.name = "not_a_tool"
  /\ last.eff.resp = "BackendError"

(* C13: the server stays responsive to a cache-admin request while a       *)
(* symbol-scoped fetch is in flight: when such a request has been received *)
(* during the fetch, the server can handle and answer it before the fetch  *)
(* completes.                                                              *)
C13_ResponsiveInFlight ==
  (/\ running # Idle
   /\ inbox # <<>>
   /\ Head(inbox).req.name \in CacheAdminTools)
  => ENABLED HandleAdmin

(* The invocation left the session and the login state as they were and    *)
(* called neither the constructor nor login                                *)
SessionUntouched ==
  /\ sf' = sf
  /\ _login_attempted' = _login_attempted
  /\ _login_successful' = _login_successful
  /\ login_calls' = login_calls
  /\ ctor_failed' = ctor_failed
  /\ last'.eff.ctor = 0
  /\ last'.eff.login = 0

(* C14: check_login_status never constructs a session and never attempts   *)
(* login: in every state it leaves sf, both login flags and the cache      *)
(* unchanged, and when no session exists it reports logged_in = false.     *)
C14_CheckLoginStatusFrame ==
  [][ Invoked({"check_login_status"}) =>
        /\ SessionUntouched
        /\ ticker_cache' = ticker_cache
        /\ last'.eff.resp = "LoginStatus"
        /\ sf = None => last'.eff.checked = "no"
    ]_vars

C14_Witness ==
  /\ Called
  /\ last.name = "check_login_status"
  /\ sf = None
  /\ ctor_failed
  /\ ~_login_attempted
  /\ last.eff.checked = "no"
  /\ ticker_cache = EmptyCache

(* C15 as stated: get_cache_stats and clear_cache never construct the      *)
(* session, never attempt login and never read or call the backing client. *)
C15_AdminNeverReadsClient ==
  [][ Invoked(CacheAdminTools) =>
        /\ SessionUntouched
        /\ ~(sf # None /\ last'.eff.checked # "na")
    ]_vars

(* C15 amended: get_cache_stats and clear_cache never construct the        *)
(* session, never attempt login and leave the session state as it was;     *)
(* clear_cache does not consult the session at all, and get_cache_stats    *)
(* consults it only through is_logged_in(), whose value it reports (the    *)
(* backing client's state when a session exists).                          *)
C15_AdminLeavesSession ==
  [][ Invoked(CacheAdminTools) =>
        /\ SessionUntouched
        /\ fetcher_logged_in' = fetcher_logged_in
        /\ last'.name = "clear_cache" => last'.eff.checked = "na"
        /\ last'.name = "get_cache_stats" =>
             /\ last'.eff.checked # "na"
             /\ sf # None => (last'.eff.checked = "yes") = fetcher_logged_in
             /\ sf = None => last'.eff.checked = "no"
    ]_vars

C15_Witness ==
  /\ Called
  /\ last.name = "get_cache_stats"
  /\ sf # None
  /\ fetcher_logged_in
  /\ last.eff.checked = "yes"

(* C16: is_logged_in() (its value is what check_login_status and           *)
(* get_cache_stats report) is the backing client's authentication state    *)
(* whenever a session exists, also when the cached _login_successful flag  *)
(* says otherwise; when no session has been created it is the cached       *)
(* flag, and that flag is then false.                                      *)
C16_LiveLoginState ==
  /\ sf = None => ~_login_successful
  /\ (Called /\ last.name \in {"check_login_status", "get_cache_stats"}) =>
       /\ sf # None => (last.eff.checked = "yes") = fetcher_logged_in
       /\ sf = None => /\ (last.eff.checked = "yes") = _login_successful
                       /\ last.eff.checked = "no"

C16_Witness ==
  /\ Called
  /\ last.name = "check_login_status"
  /\ sf # None
  /\ _login_successful
  /\ ~fetcher_logged_in
  /\ last.eff.checked = "no"

(* C17 as stated: a symbol-scoped request for S answered with the          *)
(* ticker-not-found error leaves the cache without an entry for S.         *)
C17_NotFoundNothingCached ==
  (TickerCall /\ last.eff.resp = "TickerNotFound")
  => LastKey \notin DOMAIN ticker_cache

(* C17 amended: when sf.ticker(S) reports the symbol as not found, nothing *)
(* is inserted and the cache holds no entry for S afterwards (an expired   *)
(* one has been removed); when a method of the ticker object reports it,   *)
(* the entry of S, cached before or inserted by this request, stays.  In   *)
(* both cases the answer is the ticker-not-found error.                    *)
C17_NotFoundAtCreation ==
  (TickerCall /\ last.eff.resp = "TickerNotFound")
  => /\ last.eff.ticker = NoTicker =>
          /\ last.eff.factory = 1
          /\ LastKey \notin DOMAIN ticker_cache
     /\ last.eff.ticker # NoTicker =>
          /\ LastKey \in DOMAIN ticker_cache
          /\ ticker_cache[LastKey].ticker = last.eff.ticker

C17_Witness ==
  /\ TickerCall
  /\ last.eff.resp = "TickerNotFound"
  /\ last.eff.ticker = NoTicker
  /\ last.prev_time >= 0
  /\ LastKey \notin DOMAIN ticker_cache

(* A symbol-scoped request that is answered with an error *)
FailedSymbolCall ==
  /\ Invoked(SymbolTools)
  /\ "symbol" \in last'.arguments.keys
  /\ last'.eff.resp \in {"TickerNotFound", "LoginRequired", "InitFailed",
                         "BackendError"}

(* An existing session is the same object, in the same state, after the    *)
(* step                                                                    *)
SessionKept ==
  sf # None =>
    /\ sf' = sf
    /\ fetcher_logged_in' = fetcher_logged_in
    /\ _login_attempted' = _login_attempted
    /\ _login_successful' = _login_successful

(* C18 as stated: a failed symbol-scoped request for S removes or replaces *)
(* no cache entry of another symbol and does not reset the session.        *)
C18_FailureTouchesNothingElse ==
  [][ FailedSymbolCall =>
        /\ SessionKept
        /\ \A k \in DOMAIN ticker_cache \ {Canonical(last'.arguments.symbol)} :
             /\ k \in DOMAIN ticker_cache'
             /\ ticker_cache'[k] = ticker_cache[k]
    ]_vars

(* C18 amended: a failed symbol-scoped request for S replaces no cache     *)
(* entry of another symbol, adds none, and removes only those the sweep    *)
(* at its start finds expired (age >= TTL); it does not reset the session. *)
C18_FailureSweepsOnlyExpired ==
  [][ FailedSymbolCall =>
        /\ SessionKept
        /\ \A k \in DOMAIN ticker_cache' \ {Canonical(last'.arguments.symbol)} :
             /\ k \in DOMAIN ticker_cache
             /\ ticker_cache'[k] = ticker_cache[k]
        /\ \A k \in DOMAIN ticker_cache \ {Canonical(last'.arguments.symbol)} :
             \/ k \in DOMAIN ticker_cache'
             \/ now - ticker_cache[k].time >= CACHE_EXPIRY_HOURS
    ]_vars

C18_Witness ==
  /\ Called
  /\ last.name \in SymbolTools
  /\ last.arguments.symbol = <<"a">>
  /\ last.eff.resp = "BackendError"
  /\ last.eff.factory = 1
  /\ sf # None
  /\ <<>> \in DOMAIN ticker_cache
  /\ now - ticker_cache[<<>>].time = TickHours

(* C19: get_cache_stats counts the entries present when it is called:      *)
(* active are those of age < TTL, expired those of age >= TTL, total all   *)
(* of them, so active + expired = total; and it leaves the cache as it     *)
(* was.                                                                    *)
C19_StatsPartition ==
  [][ Invoked({"get_cache_stats"}) =>
        /\ ticker_cache' = ticker_cache
        /\ now' = now
        /\ last'.eff.total = Cardinality(DOMAIN ticker_cache)
        /\ last'.eff.active =
             Cardinality({k \in DOMAIN ticker_cache :
                            now - ticker_cache[k].time < CACHE_EXPIRY_HOURS})
        /\ last'.eff.expired =
             Cardinality({k \in DOMAIN ticker_cache :
                            now - ticker_cache[k].time >= CACHE_EXPIRY_HOURS})
        /\ last'.eff.active + last'.eff.expired = last'.eff.total
    ]_vars

C19_Witness ==
  /\ Called
  /\ last.name = "get_cache_stats"
  /\ last.eff.active = 1
  /\ last.eff.expired = 1
  /\ last.eff.total = 2
  /\ Cardinality(DOMAIN ticker_cache) = 2

(* C20: each of the six tabular tools whose ticker method returns an empty *)
(* table answers with the object {"error": "No data available"}, never     *)
(* with the (empty) sequence of records.                                   *)
C20_EmptyTableSentinel ==
  (Called /\ last.name \in TabularTools)
  => /\ last.eff.df = "empty" => last.eff.resp = "NoData"
     /\ last.eff.resp = "Records" => last.eff.df = "data"
     /\ last.eff.resp = "NoData" => last.eff.df = "empty"

C20_Witness ==
  /\ Called
  /\ last.name = "get_shareholding"
  /\ last.eff.df = "empty"
  /\ last.eff.resp = "NoData"

(* C21: the expiry sweep, run at any time on any cache the program can     *)
(* hold, removes exactly the entries of age >= TTL and leaves the younger  *)
(* ones (and everything but the cache) as they are; and a symbol-scoped    *)
(* request runs it before its cache lookup, so after the request no entry  *)
(* that had age >= TTL at the sweep is left and the younger entries of the *)
(* other symbols are unchanged.                                            *)
C21_SweepExact ==
  /\ [](LET swept == clear_expired_cache(Globals, now)
        IN /\ DOMAIN swept.cache =
                {k \in DOMAIN ticker_cache :
                   now - ticker_cache[k].time < CACHE_EXPIRY_HOURS}
           /\ \A k \in DOMAIN swept.cache : swept.cache[k] = ticker_cache[k]
           /\ swept = [Globals EXCEPT !.cache = swept.cache])
  /\ [][ (Invoked(SymbolTools) /\ "symbol" \in last'.arguments.keys) =>
           /\ \A k \in DOMAIN ticker_cache' :
                now - ticker_cache'[k].time < CACHE_EXPIRY_HOURS
           /\ \A k \in DOMAIN ticker_cache \ {Canonical(last'.arguments.symbol)} :
                now - ticker_cache[k].time < CACHE_EXPIRY_HOURS =>
                  /\ k \in DOMAIN ticker_cache'
                  /\ ticker_cache'[k] = ticker_cache[k]
       ]_vars

C21_Witness ==
  /\ TickerCall
  /\ last.name \in SymbolTools
  /\ last.arguments.symbol = <<"a">>
  /\ last.prev_time >= 0
  /\ now - last.prev_time = CACHE_EXPIRY_HOURS
  /\ last.eff.factory = 1
  /\ <<>> \in DOMAIN ticker_cache
  /\ now - ticker_cache[<<>>].time = TickHours

(* The step in which the handler that is inside its body returns *)
RunningReturns ==
  /\ last' # NoLast
  /\ last'.name = running.req.name
  /\ last'.arguments = running.req.arguments
  /\ running' = Idle
  /\ Len(inbox') = Len(inbox)

(* C22: cache operations of requests handled concurrently exclude each     *)
(* other: while a handler is between the cache check of get_ticker and its *)
(* write (its fetch is in flight), no other handler's get_ticker, clear or *)
(* sweep changes ticker_cache, so the ticker it fetched is in the cache    *)
(* when it returns (no update is lost, no entry is deleted under it).      *)
C22_CacheOpsExclusive ==
  /\ [][ running # Idle => (ticker_cache' = ticker_cache \/ RunningReturns)
       ]_vars
  /\ []((TickerCall /\ last.eff.ticker # NoTicker) =>
          /\ LastKey \in DOMAIN ticker_cache
          /\ ticker_cache[LastKey].ticker = last.eff.ticker)

C22_Witness ==
  /\ running # Idle
  /\ inbox # <<>>
  /\ Head(inbox).req.name = "clear_cache"
  /\ <<"A">> \in DOMAIN ticker_cache
  /\ now - ticker_cache[<<"A">>].time >= CACHE_EXPIRY_HOURS

(* C23: every received request waits in the inbox, is then routed and run  *)
(* by one invocation of call_tool (which executes or fails) and is then    *)
(* answered: while requests are pending an invocation eventually runs, it  *)
(* runs the request at the head of the inbox and takes it out, so each     *)
(* pending request is run, and run once; each invocation that has run is   *)
(* eventually answered, before the next one runs;                          *)
(* and one invocation calls the constructor, login and the ticker factory  *)
(* at most once each.                                                      *)
C23_RequestLifecycle ==
  /\ (inbox # <<>> /\ ~Called) ~> Called
  /\ Called ~> ~Called
  /\ [][ /\ (last = NoLast /\ last' # NoLast) =>
              /\ inbox # <<>>
              /\ last'.name = Head(inbox).req.name
              /\ last'.arguments = Head(inbox).req.arguments
              /\ Len(inbox') = Len(inbox) - 1
         /\ last # NoLast => (last' = last \/ last' = NoLast)
         /\ (last # NoLast /\ last' = NoLast) => inbox' = inbox
       ]_vars
  /\ [](Called => /\ last.eff.resp \in ResponseKinds
                  /\ last.eff.ctor <= 1
                  /\ last.eff.login <= 1
                  /\ last.eff.factory <= 1)

C23_Witness ==
  /\ Called
  /\ last.eff.resp = "InitFailed"
  /\ last.eff.ctor = 1
  /\ last.fail_seen >= 1
  /\ inbox # <<>>

(* C24: whichever tool is running, a LoginRequiredError raised by the      *)
(* backend is answered with the login-required error and a TickerNotFound  *)
(* with the ticker-not-found error, never with another kind of error.      *)
C24_BackendErrorKinds ==
  Called =>
    /\ last.eff.raised = "LoginRequiredError" => last.eff.resp = "LoginRequired"
    /\ last.eff.raised = "TickerNotFound" => last.eff.resp = "TickerNotFound"

(* C25: a request whose tool name is not in the routing table, whatever    *)
(* its arguments, leaves the cache, the session and the login flags        *)
(* unchanged and calls neither the constructor, login nor the ticker       *)
(* factory.                                                                *)
C25_UnknownToolNoEffect ==
  [][ Invoked(ToolNames \ RoutingTable) =>
        /\ SessionUntouched
        /\ fetcher_logged_in' = fetcher_logged_in
        /\ ticker_cache' = ticker_cache
        /\ last'.eff.factory = 0
    ]_vars

(* C26: whenever ticker_cache is not empty the session exists, whenever    *)
(* _login_attempted is true the session exists, and sf, once set, is the   *)
(* same client in every later state.                                       *)
C26_SessionForLife ==
  /\ [](ticker_cache # EmptyCache => sf # None)
  /\ [](_login_attempted => sf # None)
  /\ [][sf # None => sf' = sf]_vars

C26_Witness ==
  /\ sf # None
  /\ ctor_failed
  /\ _login_attempted
  /\ _login_successful
  /\ ~fetcher_logged_in
  /\ ticker_cache # EmptyCache
  /\ Called
  /\ last.name = "clear_cache"
  /\ last.eff.resp = "NoCacheFound"

====
